---- MODULE Spec2Model ----
(***************************************************************************)
(* A state-machine model of the orchestration engine of                    *)
(* src/src/environment-base.ts: the run loop the environment drives        *)
(* through queueTask / start, the composed store consulted by              *)
(* queueGenerator, the promise returned by start(), the commit pipeline,   *)
(* the alias rules and the registration of generator paths.                *)
(*                                                                         *)
(* The run loop is an instance of the grouped-queue package and the        *)
(* composed store lives in ./composed-store.js; neither is part of         *)
(* src/src/environment-base.ts.  Their operators below (SubQueuePush,      *)
(* FirstPending, composedStoreAdded ...) follow sections 3, 4.3, 4.4 and 5   *)
(* of the specification and the way the source calls them.  The same holds *)
(* for the transforms of the commit pipeline (mem-fs-editor,               *)
(* @yeoman/conflicter; section 4.5) and for the registry of ./store.js     *)
(* (section 4.2).                                                          *)
(***************************************************************************)
EXTENDS Integers, Sequences, FiniteSets, TLC

\* ------------------------------------------------------------------ bounds
\* Calls into the environment by generators' tasks and by outside code
\* (queueTask, start, queueGenerator, runGenerator, alias, register), writes
\* to and 'change' notifications of the staged filesystem and
\* backward-compatibility events, in total.
MaxOps == 4

\* --------------------------------------------------------------- constants
None == "none"

\* The sub-queues the run loop is created with (constructor, line 104): the
\* three the environment itself queues into, and one generator phase.
defaultQueues == <<"environment:run", "writing", "environment:conflicts", "install">>

CommitOnceKey == "write memory fs to disk"
InstallOnceKey == "package manager install"

\* Generator instances.  g1 and g2 are two independently constructed
\* instances of the same logical generator; g3 is a legacy generator
\* (no queueTasks method).
Generators == {"g1", "g2", "g3", "g4"}

\* Values carried by events and promises.
NoVal == [kind |-> "none", of |-> 0]
Undefined == [kind |-> "undefined", of |-> 0]
CompatPayload == [kind |-> "payload", of |-> 0]
CompatError == [kind |-> "generator:reject", of |-> 0]

VARIABLES
  queueNames,        \* runLoop.queueNames
  queue,             \* runLoop.__queues__: name -> pending tasks, FIFO
  running,           \* runLoop.running
  awaitingDone,      \* the run loop handed done/stop to a task and waits
  inflight,          \* tasks whose action has started and not yet settled
  executed,          \* history: tasks in the order their action started
  nextId,            \* the number of runLoop.add calls so far, plus one
  lastCalls,         \* history: the runLoop.add calls of the last step
  ops,               \* number of calls and events counted by MaxOps
  failures,          \* number of task actions that threw or rejected
  envErrors,         \* number of 'error' events of the environment
  lastEnvError,      \* payload of the environment's last 'error' event
  adapterClosed,     \* number of adapter.close() calls
  unhandledErrors,   \* 'error' events emitted with no listener
  runLoopEnds,       \* number of 'end' events of the run loop
  envEnds,           \* number of 'end' events of the environment
  runLoopEndOnce,    \* armed runLoop.once('end') listeners of start()
  promises,          \* one record per start() call
  composed,          \* composedStore: identifier -> generator instance
  composeEvents,     \* history: 'compose' / 'compose:<id>' events
  queueTasksCalls,   \* generator -> number of queueTasks() invocations
  runCalls,          \* generator -> number of run() invocations
  rootGenerator,     \* this._rootGenerator
  compatibilityMode, \* this.compatibilityMode
  changeListeners,   \* armed sharedFs.once('change', queueCommit) listeners
  lastQG,            \* history: the queueGenerator call of the last step
  files,             \* sharedFs: file -> "none" | "pending" | "committed"
  streamed,          \* files the stream of the commit pass in flight yields
  late,              \* files staged again after that pass had handled them
  lastPass,          \* history: the commit pass that settled in the last step
  aliases,           \* this.aliases: the alias rules in insertion order
  lastAlias,         \* history: the alias() call of the last step
  storeMeta,         \* this.store: namespace -> generator metadata
  lastReg,           \* history: the registration call of the last step
  lastLookup,        \* history: the get / create / run call of the last step
  lastPriority,      \* history: the addPriority call of the last step
  lastEmit,          \* history: the generator 'error' event of the last step
  options,           \* this.options: skipInstall and nodePackageManager
  customInstallTask, \* composedStore.customInstallTask
  customCommitTask,  \* composedStore.customCommitTask
  installClosure,    \* install task id -> the values its closure captured
  commitWith,        \* what the commit task in flight read as its commit task
  lastInstall        \* history: the install task that started in the last step

vars == <<queueNames, queue, running, awaitingDone, inflight, executed, nextId,
          lastCalls, ops, failures, envErrors, lastEnvError, adapterClosed,
          unhandledErrors, runLoopEnds, envEnds, runLoopEndOnce, promises, composed,
          composeEvents, queueTasksCalls, runCalls, rootGenerator,
          compatibilityMode, changeListeners, lastQG, files, streamed, late,
          lastPass, aliases, lastAlias, storeMeta, lastReg, lastLookup,
          lastPriority, lastEmit, options, customInstallTask, customCommitTask,
          installClosure, commitWith, lastInstall>>

\* The scheduler, the composed store, the run and the staged filesystem,
\* without the histories of the last step.
engineVars == <<queueNames, queue, running, awaitingDone, inflight, executed,
                nextId, failures, envErrors, lastEnvError,
                adapterClosed, unhandledErrors, runLoopEnds, envEnds,
                runLoopEndOnce, promises, composed, composeEvents,
                queueTasksCalls, runCalls, rootGenerator, compatibilityMode,
                changeListeners, files, streamed, late>>

composeVars == <<composed, composeEvents, queueTasksCalls, runCalls>>
rootVars == <<rootGenerator, compatibilityMode>>
errorVars == <<failures, envErrors, lastEnvError, adapterClosed, unhandledErrors>>
endVars == <<runLoopEnds, envEnds, runLoopEndOnce>>


\* ------------------------------------------------------------- generators
\* The identifier the composed store derives from the instance itself.
Identifier(g) == IF g \in {"g3", "g4"} THEN "gen:b" ELSE "gen:a"
Identifiers == {Identifier(g) : g \in Generators}

\* generator.queueTasks is defined (generator > 5).
HasQueueTasks(g) == g \notin {"g3", "g4"}

\* generator.options.forwardErrorToEnvironment
ForwardErrorToEnvironment(g) == g = "g4"

\* `!generator.options.forwardErrorToEnvironment`: the environment listens to
\* the generator's 'error' events and emits them itself.
ForwardsErrorsAlways(g) == TRUE
ForwardsErrors(g) == ~ForwardErrorToEnvironment(g)

\* The error a generator emits.
GeneratorError(g) == [kind |-> "generator", of |-> IF g = "g3" THEN 3 ELSE 4]

NoEmit == [called |-> FALSE, gen |-> None]

\* A step in which no generator emits 'error'.
NoEmits == lastEmit' = NoEmit

\* What a generator would hand back as its own result.
Result(g) == [kind |-> "result", of |-> IF g = "g1" THEN 1 ELSE IF g = "g2" THEN 2 ELSE 3]

\* ---------------------------------------------------------------- helpers
IndexOf(s, x) == IF \E i \in 1..Len(s) : s[i] = x
                 THEN CHOOSE i \in 1..Len(s) : s[i] = x /\ \A j \in 1..(i - 1) : s[j] # x
                 ELSE 0

Ids(s) == {s[i].id : i \in 1..Len(s)}

\* ------------------------------------------------------- queueTask wrapper
\* The wrapper queueTask hands to the run loop awaits the task before it
\* calls done().
AwaitsTaskNot == FALSE
AwaitsTask == TRUE

\* A rejected task makes the wrapper call stop(error), not done().
CatchCallsStopNot == FALSE
CatchCallsStop == TRUE

\* The sub-queue name queueTask passes on to runLoop.add.
PriorityArgWrong(priority) == "install"
PriorityArg(priority) == priority

\* The `once` option queueTask passes on to runLoop.add.
OnceOptionOmitted(once) == None
OnceOption(once) == once

\* --------------------------------------------------------------- run loop
\* A sub-queue drops a task named by `once` while a task of that name is
\* in it; a task leaves the sub-queue when the run loop takes it off to run.
PendingOrRanNamed(q, name, key) ==
  key # None /\ \/ \E i \in 1..Len(q[name]) : q[name][i].once = key
                \/ \E i \in 1..Len(executed) : executed[i].once = key /\ executed[i].prio = name
PendingNamed(q, name, key) == key # None /\ \E i \in 1..Len(q[name]) : q[name][i].once = key

\* A task of that name was taken off that sub-queue earlier and its action
\* has settled (history only).
RanNamed(name, key) ==
  key # None /\ \E i \in 1..Len(executed) :
                  /\ executed[i].once = key /\ executed[i].prio = name
                  /\ executed[i] \notin inflight

\* The scheduler has not been started yet.
NeverStarted == ~running /\ executed = <<>> /\ runLoopEnds = 0 /\ Len(promises) = 0

\* runLoop.add(name, task, {once, run}) on the pair st = [q, log]: the task
\* is appended to the named sub-queue unless dropped, and the call is logged.
SubQueuePush(st, priority, once, kind, gen, by) ==
  LET id == st.next
      name == PriorityArg(priority)
      key == OnceOption(once)
      task == [id |-> id, prio |-> priority, once |-> once, kind |-> kind,
               gen |-> gen, by |-> by, idle |-> NeverStarted]
      q2 == IF PendingNamed(st.q, name, key)
            THEN st.q
            ELSE [st.q EXCEPT ![name] = Append(@, task)]
      entry == [id |-> id, prio |-> priority, once |-> once, kind |-> kind, by |-> by,
                dropped |-> (q2 = st.q),
                pendingSame |-> (once # None /\ \E j \in 1..Len(st.q[priority]) :
                                                     st.q[priority][j].once = once),
                ranSame |-> RanNamed(priority, once),
                idle |-> NeverStarted]
  IN [q |-> q2, next |-> st.next + 1, log |-> Append(st.log, entry)]

RECURSIVE PushTimes(_, _, _, _, _, _, _)
PushTimes(st, n, priority, once, kind, gen, by) ==
  IF n = 0 THEN st
  ELSE PushTimes(SubQueuePush(st, priority, once, kind, gen, by), n - 1,
                 priority, once, kind, gen, by)

\* Index of the first sub-queue, in queueNames order, holding a task; 0 if
\* every sub-queue is empty.  The run loop restarts this scan from the first
\* sub-queue after every task.
FirstPendingFromLast ==
  LET from == IF executed = <<>> THEN 1
              ELSE IndexOf(queueNames, executed[Len(executed)].prio)
      S == {i \in 1..Len(queueNames) : i >= from /\ queue[queueNames[i]] # <<>>}
  IN IF S = {} THEN 0 ELSE CHOOSE i \in S : \A j \in S : i <= j
FirstPending ==
  LET S == {i \in 1..Len(queueNames) : queue[queueNames[i]] # <<>>}
  IN IF S = {} THEN 0 ELSE CHOOSE i \in S : \A j \in S : i <= j

\* ------------------------------------------------------------ environment
State0 == [q |-> queue, next |-> nextId, log |-> <<>>]

\* queueCommit(): the commit task, named by CommitOnceKey.
QueueCommit(st) == SubQueuePush(st, "environment:conflicts", CommitOnceKey, "commit", None, 0)

\* queuePackageManagerInstall(): the install task, named by InstallOnceKey.
QueuePackageManagerInstall(st) == SubQueuePush(st, "install", InstallOnceKey, "install", None, 0)

\* The tasks generator.queueTasks() queues: one task of a generator phase.
GeneratorQueueTasks(st, g) == SubQueuePush(st, "writing", None, "user", g, 0)

\* The runGenerator closure of queueGenerator, on the queues.
RunGeneratorClosure(st, g) == IF HasQueueTasks(g) THEN GeneratorQueueTasks(st, g) ELSE st

Bump(f, g) == [f EXCEPT ![g] = @ + 1]

\* composedStore.addGenerator(generator).added
composedStoreAdded(g) == composed[Identifier(g)] = None

\* How often generator g has been orchestrated so far: its queueTasks() and
\* run() invocations and its scheduled runs.
Orchestrated(g) ==
  queueTasksCalls[g] + runCalls[g]
    + Cardinality({i \in 1..Len(queue["environment:run"]) : queue["environment:run"][i].gen = g})

\* The events queueGenerator emits for a generator that was added: 'compose',
\* then 'compose:<identifier>', both before the generator is run or scheduled
\* (orch: the generator's orchestrations at that point).
ComposeEmitsSwapped(id, g) ==
  <<[ev |-> "compose:id", id |-> id, gen |-> g, orch |-> Orchestrated(g)],
    [ev |-> "compose", id |-> id, gen |-> g, orch |-> Orchestrated(g)]>>
ComposeEmits(id, g) ==
  <<[ev |-> "compose", id |-> id, gen |-> g, orch |-> Orchestrated(g)],
    [ev |-> "compose:id", id |-> id, gen |-> g, orch |-> Orchestrated(g)]>>

\* queueGenerator returns the stored instance when nothing was added.
ReturnsExistingNever(added) == FALSE
ReturnsExisting(added) == ~added

\* The listener start() puts on 'error' rejects the promise.
ErrorListenerRejectsNot == FALSE
ErrorListenerRejects == TRUE

\* The value the 'end' listener of start() resolves the promise with.
EndResolveRootResult == Result(rootGenerator)
EndResolveValue == Undefined

\* reject(error) / resolve(value) of every promise: only a pending promise
\* changes.  firstErr records the first error surfaced since the promise
\* was created (history only).
RejectAll(ps, e, rejects) ==
  [i \in 1..Len(ps) |->
     [ps[i] EXCEPT !.state = IF @ = "pending" /\ rejects THEN "rejected" ELSE @,
                   !.value = IF ps[i].state = "pending" /\ rejects THEN e ELSE @,
                   !.firstErr = IF @ = NoVal THEN e ELSE @]]

ResolveAll(ps, v, how) ==
  [i \in 1..Len(ps) |->
     [ps[i] EXCEPT !.state = IF @ = "pending" THEN "resolved" ELSE @,
                   !.value = IF ps[i].state = "pending" THEN v ELSE @,
                   !.by = IF ps[i].state = "pending" THEN how ELSE @]]

\* The once('end') listeners of start(): each armed one resolves its promise.
ResolveOnEndNever(ps) == ps
ResolveOnEnd(ps) ==
  [i \in 1..Len(ps) |->
     IF ps[i].endArmed
     THEN [ps[i] EXCEPT !.endArmed = FALSE,
                        !.state = IF @ = "pending" THEN "resolved" ELSE @,
                        !.value = IF ps[i].state = "pending" THEN EndResolveValue ELSE @,
                        !.by = IF ps[i].state = "pending" THEN "end" ELSE @]
     ELSE ps[i]]

NoQG == [gen |-> None, ret |-> None, added |-> FALSE, queued |-> 0]

NewPromise == [state |-> "pending", value |-> NoVal, endArmed |-> TRUE,
               firstErr |-> NoVal, by |-> None]

\* -------------------------------------------------------- commit pipeline
\* Staged files: one of the well-known control files and one ordinary file.
Files == {".yo-rc.json", "file.txt"}

\* pattern '**/{.yo-rc.json,.yo-resolve,.yo-rc-global.json}'
IsControlFile(f) == f \in {".yo-rc.json", ".yo-resolve", ".yo-rc-global.json"}

\* The filter of the stream a commit pass reads: isFilePending(file).
StreamFilterAll(state) == state # "none"
StreamFilter(state) == state = "pending"

\* conflicterOptions (force, dryRun, bail; none of them: ask), the entry of
\* the persisted resolution file, whether the target differs on disk, and the
\* adapter's answer when asked.
Policies == {"force", "dryRun", "bail", "ask"}
Answers == {"overwrite", "skip", "abort"}
PassInputs == [policy : Policies, resolve : {None, "skip"}, conflict : BOOLEAN,
               answer : Answers]

\* The inputs the files of a pass can meet; a pass over no file meets none.
PassInputsFor(S) ==
  IF S = {} THEN {[policy |-> "ask", resolve |-> None, conflict |-> FALSE,
                   answer |-> "overwrite"]}
  ELSE PassInputs

\* A file entering the transforms of a pass; seen: the marker each later
\* stage found on it (history only).
StreamFile(f) == [name |-> f, marker |-> None, seen |-> <<>>, prompted |-> FALSE,
                  action |-> None, written |-> FALSE]

\* passthrough(file => { file.conflicter = 'force' }, {pattern})
ForceControlFile(fr) ==
  [fr EXCEPT !.marker = IF IsControlFile(fr.name) THEN "force" ELSE @]

\* createYoResolveTransform(): a persisted resolution marks a file that has
\* no marker yet.
YoResolveTransform(fr, in) ==
  [fr EXCEPT !.marker = IF @ = None THEN in.resolve ELSE @,
             !.seen = Append(@, [stage |-> "yo-resolve", marker |-> fr.marker])]

\* createConflicterTransform(adapter, conflicterOptions): a marked file is
\* resolved by its marker, a file that does not differ on disk is written,
\* any other by the policy, asking the adapter when no policy decides.
ConflicterTransform(fr, in) ==
  LET asks == fr.marker = None /\ in.conflict /\ in.policy = "ask"
      action == IF fr.marker = "force" THEN "write"
                ELSE IF fr.marker = "skip" THEN "skip"
                ELSE IF ~in.conflict THEN "write"
                ELSE IF in.policy = "force" THEN "write"
                ELSE IF in.policy = "dryRun" THEN "skip"
                ELSE IF in.policy = "bail" THEN "abort"
                ELSE IF in.answer = "overwrite" THEN "write"
                ELSE in.answer
  IN [fr EXCEPT !.prompted = asks, !.action = action,
                !.seen = Append(@, [stage |-> "conflicter", marker |-> fr.marker])]

\* createCommitTransform(fs): writes a pending file that was not skipped.
CommitTransform(fr, pending) ==
  [fr EXCEPT !.written = pending /\ fr.action \notin {"skip", "abort"}]

\* The transforms commitSharedFs hands to fs.commit, in order.
CommitTransformsForceLast == <<"yo-resolve", "conflicter", "force", "commit">>
CommitTransforms == <<"force", "yo-resolve", "conflicter", "commit">>

RECURSIVE RunTransforms(_, _, _, _)
RunTransforms(stages, fr, in, pending) ==
  IF stages = <<>> \/ fr.action = "abort" THEN fr
  ELSE LET next == IF Head(stages) = "force" THEN ForceControlFile(fr)
                   ELSE IF Head(stages) = "yo-resolve" THEN YoResolveTransform(fr, in)
                   ELSE IF Head(stages) = "conflicter" THEN ConflicterTransform(fr, in)
                   ELSE CommitTransform(fr, pending)
       IN RunTransforms(Tail(stages), next, in, pending)

\* commitSharedFs(stream) for one file of the stream.
commitSharedFs(f, in) == RunTransforms(CommitTransforms, StreamFile(f), in, files[f] = "pending")

\* The pass aborts when conflict resolution aborts on one of its files.
Aborts(in) == \E f \in streamed : commitSharedFs(f, in).action = "abort"

NoPass == [ran |-> FALSE, aborted |-> FALSE, in |-> None, streamed |-> {},
           results |-> <<>>]

\* What a settled pass leaves: each streamed file not staged again since
\* (and, after an abort, handled before it) is no longer pending.
PassRecord(in, aborted) ==
  [ran |-> TRUE, aborted |-> aborted, in |-> in, streamed |-> streamed,
   results |-> [f \in streamed |-> commitSharedFs(f, in)]]

FilesAfter(handled) ==
  [f \in Files |-> IF f \in handled /\ f \notin late /\ files[f] = "pending"
                   THEN "committed" ELSE files[f]]

\* The commit task subscribes to the next 'change' after the awaited
\* customCommitTask(): only when that returned (ok), not when it threw.
ResubscribesAlways(ok) == TRUE
Resubscribes(ok) == ok

\* Steps that leave the staged filesystem alone and settle no pass.
NoFs == files' = files /\ streamed' = streamed /\ late' = late /\ lastPass' = NoPass

\* ------------------------------------------------------------ alias rules
\* An identifier is the sequence of its ':'-separated segments: "foo:app" is
\* <<"foo", "app">>, "foo" is <<"foo">> and the empty string is <<"">>.
AliasInputs == {<<"foo">>, <<"bar">>, <<"foo", "app">>, <<"">>}

\* What the caller passes as `match` when it gives no replacement value.
InputTypes == {"string", "namespace", "undefined"}

\* A rule {match, value}.  pat "bare" is the pattern /^([^:]+)$/ and pat "any"
\* is /^(.+)$/, both with the value '$1:<value>'; pat "lit" is the pattern
\* new RegExp(`^${lit}$`) of a string match, with the plain value.
DefaultAliasAny == [pat |-> "any", lit |-> <<>>, value |-> <<"app">>]
DefaultAlias == [pat |-> "bare", lit |-> <<>>, value |-> <<"app">>]

\* The rules callers register in this model.
AliasRules ==
  { [pat |-> "bare", lit |-> <<>>, value |-> <<"all">>],
    [pat |-> "lit", lit |-> <<"foo">>, value |-> <<"bar">>],
    [pat |-> "lit", lit |-> <<"bar", "app">>, value |-> <<"foo">>] }

\* alias.match.test(resolved)
AliasTest(rule, str) ==
  CASE rule.pat = "bare" -> Len(str) = 1 /\ str[1] # ""
    [] rule.pat = "any" -> str # <<"">>
    [] OTHER -> str = rule.lit

\* resolved.replace(alias.match, alias.value), on a string the pattern matches
AliasReplace(rule, str) ==
  IF rule.pat = "lit" THEN rule.value ELSE str \o rule.value

\* One step of the reduce.
AliasStep(rule, str) ==
  IF ~AliasTest(rule, str) THEN str ELSE AliasReplace(rule, str)

\* [...this.aliases].reverse()
AliasOrderInsertion(rules) == rules
AliasOrder(rules) == [i \in 1..Len(rules) |-> rules[Len(rules) + 1 - i]]

\* aliases.reduce(..., match), keeping every step: what each rule was given
\* and what it returned.
RECURSIVE AliasReduce(_, _)
AliasReduce(rules, str) ==
  IF rules = <<>> THEN <<>>
  ELSE LET out == AliasStep(Head(rules), str)
       IN  <<[rule |-> Head(rules), given |-> str, out |-> out]>>
             \o AliasReduce(Tail(rules), out)

\* The string the getter returns.
AliasResolved(rules, str) ==
  LET steps == AliasReduce(AliasOrder(rules), str)
  IN  IF steps = <<>> THEN str ELSE steps[Len(steps)].out

\* `typeof match !== 'string'`: the getter throws a TypeError.
RequiresStringNot(typ) == FALSE
RequiresString(typ) == typ # "string"

NoAlias == [called |-> FALSE, typ |-> None, input |-> <<>>, threw |-> None,
            steps |-> <<>>, output |-> <<>>, again |-> <<>>]

\* --------------------------------------------------------------- registry
Namespaces == {"foo", "foo:app", "bar:app"}
AbsolutePaths == {"/gen/a", "/gen/b", "/gen/c"}
Paths == AbsolutePaths \cup {"gen/a"}
PackagePaths == {None, "/pkg"}

\* isAbsolute(generatorPath)
isAbsolute(path) == path \in AbsolutePaths

\* this.namespace(generatorPath): the namespace asNamespace derives from a
\* path, the empty string when it derives none.
namespace(path) ==
  CASE path = "/gen/a" -> "foo:app"
    [] path = "/gen/b" -> "bar:app"
    [] OTHER -> ""

\* A namespace the store has no metadata for.
NoMeta == [resolved |-> None, packagePath |-> None]

\* this.store.getMeta(namespace)
getMeta(ns) == IF ns \in DOMAIN storeMeta THEN storeMeta[ns] ELSE NoMeta

\* this.store.get(namespace): the generator loaded from the resolved
\* location, None for undefined.
storeGet(ns) == getMeta(ns).resolved

\* `generatorMeta && generatorMeta.resolved === generatorPath`
AlreadyRegisteredNamespace(meta, generatorPath) == meta # NoMeta
AlreadyRegistered(meta, generatorPath) ==
  meta # NoMeta /\ meta.resolved = generatorPath

\* this.store.add({namespace, resolved, packagePath})
storeAdd(ns, resolved, packagePath) ==
  [storeMeta EXCEPT ![ns] = [resolved |-> resolved, packagePath |-> packagePath]]

NoReg == [called |-> FALSE, op |-> None, arg |-> None, nsArg |-> None,
          path |-> None, ns |-> None, threw |-> None,
          found |-> NoMeta, added |-> FALSE, ret |-> None]

\* What a caller passes as the first argument of register(): a path, a
\* generator function, an object with a createGenerator function, another
\* object, or nothing.
ArgKinds == {"string", "function", "factory", "object", "undefined"}

\* Environment.UNKNOWN_RESOLVED
UNKNOWN_RESOLVED == "unknown"

\* `if (pathOrStub)` in register(), for an argument that is no string
Truthy(arg) == arg # "undefined"

\* `typeof Generator !== 'function' &&
\*  typeof Generator.createGenerator !== 'function'`, negated
IsStubAlways(arg) == TRUE
IsStub(arg) == arg \in {"function", "factory"}

\* ---------------------------------------------------------------- lookup
\* The string of an identifier: its segments joined by ':'.
RECURSIVE Join(_)
Join(id) == IF Len(id) = 1 THEN id[1] ELSE id[1] \o ":" \o Join(Tail(id))

\* The identifiers callers look up.  The last one is a path: toNamespace
\* does not parse it.
LookupIds == {<<"foo">>, <<"foo", "app">>, <<"bar">>, <<"">>, <<"/gen/a">>}

\* toNamespace(namespaceOrPath) is defined
Parses(id) == Join(id) \notin Paths

\* this.alias(namespace), as a string
aliasOf(id) == Join(AliasResolved(aliases, id))

\* `a ?? b` over two store lookups: the identifiers consulted, in order.
\* FallbackNever and FallbackAlways are what the lookup would consult if it
\* never retried, or always did.
FallbackNever(first, key, aliased) == <<key>>
FallbackAlways(first, key, aliased) == <<key, aliased>>
Fallback(first, key, aliased) ==
  IF first # None THEN <<key>> ELSE <<key, aliased>>

\* `if (!namespaceOrPath) return` in get()
EmptyGuard(key) == key = ""

NoLookup == [called |-> FALSE, op |-> None, id |-> <<>>, key |-> None, lookups |-> <<>>,
             result |-> None, discovered |-> FALSE, experimental |-> FALSE,
             installs |-> 0, threw |-> None, args |-> None, c |-> 0, gen |-> None]

\* The identifiers callers ask create(), run() and composeWith() for.
RunIds == {<<"foo">>, <<"bar">>, <<"">>}

\* What get(namespace) resolves to for a namespace that parses: the
\* generator under the identifier as given, else the one under its alias.
Lookup(id) ==
  LET consulted == Fallback(storeGet(Join(id)), Join(id), aliasOf(id))
  IN  [lookups |-> consulted, result |-> storeGet(consulted[Len(consulted)])]

\* `!this.get(name)` in run() and `!maybeGenerator` in create(): get is
\* async and is not awaited there, and a promise is never falsy.
GetIsFalsy(Generator) == FALSE

\* `this.experimental && !this.get(name)`: the number of
\* prepareEnvironment(name) calls of a run().
Installs(experimental, Generator) ==
  IF experimental /\ GetIsFalsy(Generator) THEN 1 ELSE 0

\* checkGenerator: `typeof Generator !== 'function'` throws the
\* generator-not-found TypeError.
NotFoundNever(Generator) == FALSE
NotFound(Generator) == Generator = None

\* How composeWith(generator, args, options, composeOptions) is given its
\* schedule flag: not at all, as args, as options, as composeOptions, or
\* as composeOptions.schedule.
FlagPositions == {"none", "args", "options", "composeOptions", "composeOptions.schedule"}

\* The `schedule` composeWith passes on.  The flag read from args or options
\* is overwritten by the last assignment, which looks at composeOptions
\* only and defaults to true.
ComposeSchedule(position, flag) ==
  LET fromArgs == IF position \in {"args", "options"} THEN flag ELSE None
      last == IF position \in {"composeOptions", "composeOptions.schedule"}
              THEN flag ELSE TRUE
  IN  last

\* A step that touches neither the scheduler nor the composed store nor
\* the staged filesystem.
NoEngine ==
  /\ UNCHANGED engineVars
  /\ lastCalls' = <<>> /\ lastQG' = NoQG /\ lastPass' = NoPass

\* A step that leaves the alias rules alone.
NoAliases == aliases' = aliases /\ lastAlias' = NoAlias

\* A step that looks nothing up.
NoLookups == lastLookup' = NoLookup

\* ------------------------------------------------------------ priorities
\* The names addPriority is called with, besides the names in the list.
NewPriorities == {"custom", "late"}

\* this.runLoop.queueNames.includes(priority)
IncludesNever(names, priority) == FALSE
Includes(names, priority) == \E i \in 1..Len(names) : names[i] = priority

\* runLoop.addSubQueue(name, before): nothing for a name of the list;
\* another name is appended when `before` is omitted and spliced in front
\* of `before` otherwise.
addSubQueueAppends(names, name, before) ==
  IF \E i \in 1..Len(names) : names[i] = name THEN names ELSE Append(names, name)
addSubQueue(names, name, before) ==
  IF \E i \in 1..Len(names) : names[i] = name
  THEN names
  ELSE IF before = None
  THEN Append(names, name)
  ELSE LET i == IndexOf(names, before)
       IN  SubSeq(names, 1, i - 1) \o <<name>> \o SubSeq(names, i, Len(names))

NoPriority == [called |-> FALSE, priority |-> None, before |-> None]

\* A step that adds no priority.
NoPriorities == lastPriority' = NoPriority

\* A step that calls neither alias() nor a registration method.
NoRegistry ==
  /\ aliases' = aliases /\ lastAlias' = NoAlias
  /\ storeMeta' = storeMeta /\ lastReg' = NoReg

\* ------------------------------------------------- install and commit tasks
\* The values of skipInstall and nodePackageManager; None is undefined.
SkipInstallValues == {None, "true", "false"}
PackageManagers == {None, "npm", "yarn"}

\* The options loadEnvironmentOptions is called with.
OptionInputs ==
  {[skipInstall |-> "true", nodePackageManager |-> None],
   [skipInstall |-> "false", nodePackageManager |-> "npm"],
   [skipInstall |-> None, nodePackageManager |-> "yarn"]}

\* defaults(this.options, pick(options, ['skipInstall', 'nodePackageManager'])):
\* a key of this.options that is undefined takes the value passed.
LoadDefaults(opts, in) ==
  [k \in DOMAIN opts |-> IF opts[k] = None THEN in[k] ELSE opts[k]]

\* The custom tasks the composed store reports: None (undefined), a
\* function, or for the commit task a value that is not a function.
CustomInstallTasks == {None, "custom"}
CustomCommitTasks == {None, "custom", "disabled"}

\* What queuePackageManagerInstall reads when it is called ...
InstallValues ==
  [skipInstall |-> options.skipInstall,
   nodePackageManager |-> options.nodePackageManager,
   customInstallTask |-> customInstallTask]

\* ... and what the install task passes to packageManagerInstallTask: the
\* constants of its closure (closure), not the values at that time (now).
InstallArgsNow(closure, now) == now
InstallArgs(closure, now) == closure

\* The install task does nothing in compatibility mode 'v4'.
InvokesPackageManager(mode) == mode # "v4"

NoInstallArgs == [skipInstall |-> None, nodePackageManager |-> None, customInstallTask |-> None]
NoInstall == [called |-> FALSE, id |-> 0, invoked |-> FALSE, args |-> NoInstallArgs]

\* The install task t starts.
InstallTask(t) ==
  LET invoked == InvokesPackageManager(compatibilityMode)
  IN [called |-> TRUE, id |-> t.id, invoked |-> invoked,
      args |-> IF invoked THEN InstallArgs(installClosure[t.id], InstallValues)
               ELSE NoInstallArgs]

\* The install tasks the runLoop.add calls of log queued.
Armed(log) == {log[i].id : i \in {j \in 1..Len(log) : log[j].kind = "install" /\ ~log[j].dropped}}

\* The commit task reads composedStore.customCommitTask when it starts:
\* undefined stands for commitSharedFs.
CommitTaskRead == customCommitTask
CommitsSharedFs(task) == task = None
CommitTaskIsFunction(task) == task # "disabled"

\* Steps that change neither the options nor the custom tasks ...
NoOptions == UNCHANGED <<options, customInstallTask, customCommitTask>>

\* ... and start neither an install nor a commit task ...
NoTaskStart ==
  /\ NoOptions
  /\ commitWith' = commitWith
  /\ lastInstall' = NoInstall

\* ... and arm no install task.
NoCustom ==
  /\ NoOptions
  /\ UNCHANGED <<installClosure, commitWith>>
  /\ lastInstall' = NoInstall

\* ------------------------------------------------------------------- Init
Init ==
  /\ queueNames = defaultQueues
  /\ queue = [n \in {defaultQueues[i] : i \in 1..Len(defaultQueues)} |-> <<>>]
  /\ running = FALSE
  /\ awaitingDone = FALSE
  /\ inflight = {}
  /\ executed = <<>>
  /\ nextId = 1
  /\ lastCalls = <<>>
  /\ ops = 0
  /\ failures = 0
  /\ envErrors = 0
  /\ lastEnvError = NoVal
  /\ adapterClosed = 0
  /\ unhandledErrors = 0
  /\ runLoopEnds = 0
  /\ envEnds = 0
  /\ runLoopEndOnce = 0
  /\ promises = <<>>
  /\ composed = [i \in Identifiers |-> None]
  /\ composeEvents = <<>>
  /\ queueTasksCalls = [g \in Generators |-> 0]
  /\ runCalls = [g \in Generators |-> 0]
  /\ rootGenerator = None
  /\ compatibilityMode = None
  /\ changeListeners = 0
  /\ lastQG = NoQG
  /\ files = [f \in Files |-> "none"]
  /\ streamed = {}
  /\ late = {}
  /\ lastPass = NoPass
  /\ aliases = <<DefaultAlias>>
  /\ lastAlias = NoAlias
  /\ storeMeta = [ns \in Namespaces |-> NoMeta]
  /\ lastReg = NoReg
  /\ lastLookup = NoLookup
  /\ lastPriority = NoPriority
  /\ lastEmit = NoEmit
  /\ options = [skipInstall |-> None, nodePackageManager |-> None]
  /\ customInstallTask = None
  /\ customCommitTask = None
  /\ installClosure = [i \in {} |-> NoInstallArgs]
  /\ commitWith = None
  /\ lastInstall = NoInstall

\* Who may call into the environment: a task whose action is in flight, or
\* (caller 0) outside code.  Outside code is taken to call while the run
\* loop is stopped; start() may also be called between two tasks.
Callers == {0} \cup {t.id : t \in {u \in inflight : u.kind = "user"}}
CallerOk(c) == c = 0 => (inflight = {} /\ ~running)
StartOk == inflight = {}

\* What a caller passes to queueTask.
CallerTasks == {<<"writing", None>>, <<"writing", "k">>, <<"install", None>>}

\* ---------------------------------------------------------------- actions
\* The queues after the runLoop.add calls of a step, and a step without any.
SetQueues(st) == queue' = st.q /\ nextId' = st.next /\ lastCalls' = st.log
NoCalls == queue' = queue /\ nextId' = nextId /\ lastCalls' = <<>>

\* One more call or event counted by MaxOps.
Op == ops < MaxOps /\ ops' = ops + 1

\* The `run` option queueTask passes to runLoop.add.
RunOptionAlways(startQueue) == TRUE
RunOption(startQueue) == startQueue

\* The runLoop.add calls of st, with the startQueue option of the queueTask
\* call that made them.
WithStartQueue(st, startQueue) ==
  [st EXCEPT !.log = [i \in 1..Len(st.log) |-> [startQueue |-> startQueue] @@ st.log[i]]]

\* queueTask(priority, task, {once, startQueue})
QueueTask(c, priority, once, startQueue) ==
  /\ CallerOk(c)
  /\ Op
  /\ SetQueues(WithStartQueue(SubQueuePush(State0, priority, once, "user", None, c),
                              startQueue))
  /\ running' = (running \/ RunOption(startQueue))
  /\ NoRegistry
  /\ NoLookups /\ NoPriorities /\ NoEmits /\ NoCustom
  /\ lastQG' = NoQG
  /\ NoFs
  /\ UNCHANGED <<queueNames, awaitingDone, inflight, executed, promises, changeListeners>>
  /\ UNCHANGED <<composeVars, rootVars, errorVars, endVars>>

\* The part of start() that arms the commit and the install task.  The
\* guard `this.conflicter === undefined` is always true: nothing assigns
\* this.conflicter.
StartQueues(st) == QueuePackageManagerInstall(QueueCommit(st))

\* start(options), on the queues st left by the caller.
StartFrom(st) ==
  /\ Op
  /\ SetQueues(StartQueues(st))
  /\ installClosure' =
       [i \in DOMAIN installClosure \cup Armed(StartQueues(st).log) |->
          IF i \in DOMAIN installClosure THEN installClosure[i] ELSE InstallValues]
  /\ promises' = Append(promises, NewPromise)
  /\ runLoopEndOnce' = runLoopEndOnce + 1
  /\ running' = TRUE
  /\ UNCHANGED <<queueNames, awaitingDone, inflight, executed, changeListeners>>
  /\ UNCHANGED <<errorVars, runLoopEnds, envEnds>>

Start ==
  /\ StartOk
  /\ StartFrom(State0)
  /\ NoRegistry
  /\ NoLookups /\ NoPriorities /\ NoEmits /\ NoTaskStart
  /\ lastQG' = NoQG
  /\ NoFs
  /\ UNCHANGED <<composeVars, rootVars>>

\* queueGenerator(generator, schedule): what it does to the queues ...
QueueGeneratorQueues(st, g, schedule, c) ==
  IF ReturnsExisting(composedStoreAdded(g)) THEN st
  ELSE IF schedule THEN SubQueuePush(st, "environment:run", None, "run", g, c)
  ELSE RunGeneratorClosure(st, g)

\* ... what it returns ...
QueueGeneratorResult(g) ==
  IF ReturnsExisting(composedStoreAdded(g)) THEN composed[Identifier(g)] ELSE g

\* ... and what it does to the composed store, the events and the generator.
QueueGeneratorRest(g, schedule) ==
  LET added == composedStoreAdded(g)
      proceed == ~ReturnsExisting(added)
      id == Identifier(g)
  IN /\ composed' = IF added THEN [composed EXCEPT ![id] = g] ELSE composed
     /\ composeEvents' = IF proceed THEN composeEvents \o ComposeEmits(id, g) ELSE composeEvents
     /\ queueTasksCalls' =
          IF proceed /\ ~schedule /\ HasQueueTasks(g) THEN Bump(queueTasksCalls, g)
          ELSE queueTasksCalls
     /\ runCalls' =
          IF proceed /\ ~schedule /\ ~HasQueueTasks(g) THEN Bump(runCalls, g)
          ELSE runCalls
     /\ NoRegistry
     /\ lastQG' = [gen |-> g, ret |-> QueueGeneratorResult(g), added |-> added,
                   queued |-> Len(QueueGeneratorQueues(State0, g, schedule, 0).log)]
     /\ NoFs

queueGenerator(c, g, schedule) ==
  /\ CallerOk(c)
  /\ Op
  /\ QueueGeneratorRest(g, schedule)
  /\ SetQueues(QueueGeneratorQueues(State0, g, schedule, c))
  /\ UNCHANGED <<queueNames, running, awaitingDone, inflight, executed, promises,
                 changeListeners>>
  /\ UNCHANGED <<rootVars, errorVars, endVars>>

QueueGenerator(c, g, schedule) == queueGenerator(c, g, schedule) /\ NoLookups /\ NoPriorities /\ NoEmits /\ NoCustom

\* `this._rootGenerator || generator`
RootGeneratorLast(root, generator) == generator
RootGenerator(root, generator) == IF root # None THEN root ELSE generator

\* runGenerator(generator): queueGenerator, then start.
runGenerator(g) ==
  /\ StartOk
  /\ QueueGeneratorRest(g, FALSE)
  /\ compatibilityMode' = IF HasQueueTasks(QueueGeneratorResult(g)) THEN "false" ELSE "v4"
  /\ rootGenerator' = RootGenerator(rootGenerator, QueueGeneratorResult(g))
  /\ StartFrom(QueueGeneratorQueues(State0, g, FALSE, 0))

RunGenerator(g) == runGenerator(g) /\ NoLookups /\ NoPriorities /\ NoEmits /\ NoTaskStart

\* The run loop takes the first pending task off its sub-queue and starts
\* its action.  The action of an 'environment:run' task is the runGenerator
\* closure of queueGenerator.
RunLoopExec ==
  /\ running
  /\ ~awaitingDone
  /\ FirstPending # 0
  /\ LET name == queueNames[FirstPending]
         t == Head(queue[name])
         popped == [q |-> [queue EXCEPT ![name] = Tail(@)], next |-> nextId, log |-> <<>>]
     IN /\ SetQueues(IF t.kind = "run" THEN RunGeneratorClosure(popped, t.gen) ELSE popped)
        /\ inflight' = inflight \cup {t}
        /\ executed' = Append(executed, t)
        /\ queueTasksCalls' =
             IF t.kind = "run" /\ HasQueueTasks(t.gen) THEN Bump(queueTasksCalls, t.gen)
             ELSE queueTasksCalls
        /\ runCalls' =
             IF t.kind = "run" /\ ~HasQueueTasks(t.gen) THEN Bump(runCalls, t.gen)
             ELSE runCalls
  /\ awaitingDone' = AwaitsTask
  /\ NoRegistry
  /\ NoLookups /\ NoPriorities /\ NoEmits
  /\ NoOptions
  /\ installClosure' = installClosure
  /\ lastInstall' = IF Head(queue[queueNames[FirstPending]]).kind = "install"
                    THEN InstallTask(Head(queue[queueNames[FirstPending]]))
                    ELSE NoInstall
  /\ commitWith' = IF Head(queue[queueNames[FirstPending]]).kind = "commit"
                   THEN CommitTaskRead ELSE commitWith
  /\ lastQG' = NoQG
  /\ streamed' = IF /\ Head(queue[queueNames[FirstPending]]).kind = "commit"
                    /\ CommitsSharedFs(CommitTaskRead)
                 THEN {f \in Files : StreamFilter(files[f])}
                 ELSE streamed
  /\ late' = IF Head(queue[queueNames[FirstPending]]).kind = "commit" THEN {} ELSE late
  /\ lastPass' = NoPass
  /\ UNCHANGED <<queueNames, running, ops, promises, changeListeners, files>>
  /\ UNCHANGED <<composed, composeEvents>>
  /\ UNCHANGED <<rootVars, errorVars, endVars>>

\* A full scan finds every sub-queue empty: the run loop stops and emits
\* 'end'; each armed runLoop.once('end') listener of start() emits the
\* environment's 'end', whose once('end') listeners resolve the promises.
RunLoopEnd ==
  /\ running
  /\ ~awaitingDone
  /\ FirstPending = 0
  /\ running' = FALSE
  /\ runLoopEnds' = runLoopEnds + 1
  /\ envEnds' = envEnds + runLoopEndOnce
  /\ runLoopEndOnce' = 0
  /\ promises' = IF runLoopEndOnce > 0 THEN ResolveOnEnd(promises) ELSE promises
  /\ NoCalls
  /\ NoRegistry
  /\ NoLookups /\ NoPriorities /\ NoEmits /\ NoCustom
  /\ lastQG' = NoQG
  /\ NoFs
  /\ UNCHANGED <<queueNames, awaitingDone, inflight, executed, ops, changeListeners>>
  /\ UNCHANGED <<composeVars, rootVars, errorVars>>

\* A task's action settles without error: the wrapper calls done().  The
\* commit task re-arms itself on the staged filesystem's next 'change'.
TaskDone(t) ==
  /\ t \in inflight
  /\ inflight' = inflight \ {t}
  /\ awaitingDone' = IF AwaitsTask THEN FALSE ELSE awaitingDone
  /\ changeListeners' =
       IF t.kind = "commit" /\ CommitTaskIsFunction(commitWith) /\ Resubscribes(TRUE)
       THEN changeListeners + 1 ELSE changeListeners
  /\ IF t.kind = "commit" /\ CommitsSharedFs(commitWith)
     THEN /\ \E in \in PassInputsFor(streamed) :
               ~Aborts(in) /\ lastPass' = PassRecord(in, FALSE)
          /\ files' = FilesAfter(streamed)
          /\ streamed' = {}
          /\ late' = {}
     ELSE NoFs
  /\ NoCalls
  /\ NoRegistry
  /\ NoLookups /\ NoPriorities /\ NoEmits /\ NoCustom
  /\ lastQG' = NoQG
  /\ UNCHANGED <<queueNames, running, executed, ops, promises>>
  /\ UNCHANGED <<composeVars, rootVars, errorVars, endVars>>

\* A task's action throws or rejects: the wrapper calls stop(error).  The
\* run loop stops and emits 'error'; every listener start() put on it emits
\* the environment's 'error' and closes the adapter.
TaskError(t) == [kind |-> "error", of |-> t.id]

TaskFail(t) ==
  /\ t \in inflight
  /\ t.kind \in {"user", "commit"}
  /\ t.kind = "commit" => CommitTaskIsFunction(commitWith)
  /\ inflight' = inflight \ {t}
  /\ failures' = failures + 1
  /\ IF AwaitsTask /\ CatchCallsStop
     THEN /\ running' = FALSE
          /\ awaitingDone' = FALSE
          /\ envErrors' = envErrors + Len(promises)
          /\ lastEnvError' = IF Len(promises) > 0 THEN TaskError(t) ELSE lastEnvError
          /\ adapterClosed' = adapterClosed + Len(promises)
          /\ unhandledErrors' = IF Len(promises) = 0 THEN unhandledErrors + 1 ELSE unhandledErrors
          /\ promises' = RejectAll(promises, TaskError(t), ErrorListenerRejects)
     ELSE /\ awaitingDone' = IF AwaitsTask THEN FALSE ELSE awaitingDone
          /\ UNCHANGED <<running, envErrors, lastEnvError, adapterClosed, unhandledErrors,
                         promises>>
  /\ IF t.kind = "commit" /\ CommitsSharedFs(commitWith)
     THEN /\ \/ lastPass' = NoPass /\ files' = files
             \/ \E in \in PassInputsFor(streamed), handled \in SUBSET streamed :
                  /\ Aborts(in)
                  /\ \A f \in handled : commitSharedFs(f, in).action # "abort"
                  /\ lastPass' = PassRecord(in, TRUE)
                  /\ files' = FilesAfter(handled)
          /\ streamed' = {}
          /\ late' = {}
     ELSE NoFs
  /\ changeListeners' = IF t.kind = "commit" /\ Resubscribes(FALSE)
                        THEN changeListeners + 1 ELSE changeListeners
  /\ NoCalls
  /\ NoRegistry
  /\ NoLookups /\ NoPriorities /\ NoEmits /\ NoCustom
  /\ lastQG' = NoQG
  /\ UNCHANGED <<queueNames, executed, ops>>
  /\ UNCHANGED <<composeVars, rootVars, endVars>>

\* The staged filesystem emits 'change': every armed once('change')
\* listener calls queueCommit.
FsChange(c) ==
  /\ CallerOk(c)
  /\ changeListeners > 0
  /\ Op
  /\ changeListeners' = 0
  /\ SetQueues(PushTimes(State0, changeListeners, "environment:conflicts",
                         CommitOnceKey, "commit", None, 0))
  /\ NoRegistry
  /\ NoLookups /\ NoPriorities /\ NoEmits /\ NoCustom
  /\ lastQG' = NoQG
  /\ NoFs
  /\ UNCHANGED <<queueNames, running, awaitingDone, inflight, executed, promises>>
  /\ UNCHANGED <<composeVars, rootVars, errorVars, endVars>>

\* A write is staged in the shared filesystem, by outside code while the
\* scheduler is stopped or while a task is in flight (by the task, or by
\* work running alongside it).  During a commit pass the pass's stream may
\* still yield the file (seen) or be past it.  The filesystem emits 'change'.
CommitInFlight == \E t \in inflight : t.kind = "commit" /\ CommitsSharedFs(commitWith)

StageWrite(f, seen) ==
  /\ inflight # {} \/ ~running
  /\ seen => CommitInFlight
  /\ Op
  /\ files' = [files EXCEPT ![f] = "pending"]
  /\ streamed' = IF CommitInFlight /\ seen THEN streamed \cup {f} ELSE streamed
  /\ late' = IF ~CommitInFlight THEN late
             ELSE IF seen THEN late \ {f} ELSE late \cup {f}
  /\ changeListeners' = 0
  /\ SetQueues(PushTimes(State0, changeListeners, "environment:conflicts",
                         CommitOnceKey, "commit", None, 0))
  /\ NoRegistry
  /\ NoLookups /\ NoPriorities /\ NoEmits /\ NoCustom
  /\ lastQG' = NoQG
  /\ lastPass' = NoPass
  /\ UNCHANGED <<queueNames, running, awaitingDone, inflight, executed, promises>>
  /\ UNCHANGED <<composeVars, rootVars, errorVars, endVars>>

\* A generator's task emits the backward-compatibility events start()
\* listens to.
EmitGeneratorResolve(c) ==
  /\ c # 0
  /\ Len(promises) > 0
  /\ Op
  /\ promises' = ResolveAll(promises, CompatPayload, "generator:resolve")
  /\ NoCalls
  /\ NoRegistry
  /\ NoLookups /\ NoPriorities /\ NoEmits /\ NoCustom
  /\ lastQG' = NoQG
  /\ NoFs
  /\ UNCHANGED <<queueNames, running, awaitingDone, inflight, executed, changeListeners>>
  /\ UNCHANGED <<composeVars, rootVars, errorVars, endVars>>

EmitGeneratorReject(c) ==
  /\ c # 0
  /\ Len(promises) > 0
  /\ Op
  /\ promises' = RejectAll(promises, CompatError, TRUE)
  /\ NoCalls
  /\ NoRegistry
  /\ NoLookups /\ NoPriorities /\ NoEmits /\ NoCustom
  /\ lastQG' = NoQG
  /\ NoFs
  /\ UNCHANGED <<queueNames, running, awaitingDone, inflight, executed, changeListeners>>
  /\ UNCHANGED <<composeVars, rootVars, errorVars, endVars>>

\* A legacy generator whose run() the environment has invoked emits
\* 'error'.  The listener of the runGenerator closure, when there is one,
\* emits it on the environment, where the listeners of start() reject.
EmitGeneratorError(g) ==
  /\ ~HasQueueTasks(g)
  /\ runCalls[g] > 0
  /\ Op
  /\ lastEmit' = [called |-> TRUE, gen |-> g]
  /\ IF ForwardsErrors(g)
     THEN /\ envErrors' = envErrors + 1
          /\ lastEnvError' = GeneratorError(g)
          /\ unhandledErrors' = IF Len(promises) = 0 THEN unhandledErrors + 1
                                ELSE unhandledErrors
          /\ promises' = RejectAll(promises, GeneratorError(g), ErrorListenerRejects)
     ELSE UNCHANGED <<envErrors, lastEnvError, unhandledErrors, promises>>
  /\ NoCalls
  /\ NoRegistry
  /\ NoLookups /\ NoPriorities /\ NoCustom
  /\ lastQG' = NoQG
  /\ NoFs
  /\ UNCHANGED <<queueNames, running, awaitingDone, inflight, executed, changeListeners>>
  /\ UNCHANGED <<composeVars, rootVars, endVars, failures, adapterClosed>>

\* loadEnvironmentOptions(options)
LoadEnvironmentOptions(in) ==
  /\ Op
  /\ options' = LoadDefaults(options, in)
  /\ UNCHANGED <<customInstallTask, customCommitTask, installClosure, commitWith>>
  /\ lastInstall' = NoInstall
  /\ NoEngine
  /\ NoRegistry
  /\ NoLookups /\ NoPriorities /\ NoEmits

\* The composed store comes to report another custom install task or
\* another custom commit task.
ComposedStoreCustomTasks(install, commit) ==
  /\ <<install, commit>> # <<customInstallTask, customCommitTask>>
  /\ Op
  /\ customInstallTask' = install
  /\ customCommitTask' = commit
  /\ UNCHANGED <<options, installClosure, commitWith>>
  /\ lastInstall' = NoInstall
  /\ NoEngine
  /\ NoRegistry
  /\ NoLookups /\ NoPriorities /\ NoEmits

\* alias(match, value) with a match and a value: the rule is appended.
AliasRegister(rule) ==
  /\ Op
  /\ aliases' = Append(aliases, rule)
  /\ lastAlias' = NoAlias
  /\ storeMeta' = storeMeta /\ lastReg' = NoReg
  /\ NoEngine
  /\ NoLookups /\ NoPriorities /\ NoEmits /\ NoCustom

\* alias(match) with no value: the getter.  A match that is no string has
\* no segments here.
AliasGet(typ, input) ==
  /\ Op
  /\ aliases' = aliases
  /\ lastAlias' =
       IF RequiresString(typ)
       THEN [NoAlias EXCEPT !.called = TRUE, !.typ = typ, !.input = input,
                            !.threw = "TypeError"]
       ELSE [called |-> TRUE, typ |-> typ, input |-> input, threw |-> None,
             steps |-> AliasReduce(AliasOrder(aliases), input),
             output |-> AliasResolved(aliases, input),
             again |-> AliasResolved(aliases, AliasResolved(aliases, input))]
  /\ storeMeta' = storeMeta /\ lastReg' = NoReg
  /\ NoEngine
  /\ NoLookups /\ NoPriorities /\ NoEmits /\ NoCustom

\* _registerGeneratorPath(generatorPath, namespace, packagePath)
RegisterGeneratorPath(isString, generatorPath, nsArg, packagePath) ==
  LET ns == IF nsArg # None THEN nsArg ELSE namespace(generatorPath)
      call == [NoReg EXCEPT !.called = TRUE, !.op = "path",
                            !.arg = IF isString THEN "string" ELSE "undefined",
                            !.nsArg = nsArg, !.path = generatorPath]
  IN  /\ Op
      /\ aliases' = aliases /\ lastAlias' = NoAlias
      /\ NoEngine
      /\ NoLookups /\ NoPriorities /\ NoEmits /\ NoCustom
      /\ IF ~isString
         THEN storeMeta' = storeMeta /\ lastReg' = [call EXCEPT !.threw = "TypeError"]
         ELSE IF ~isAbsolute(generatorPath) \/ ns = ""
         THEN storeMeta' = storeMeta /\ lastReg' = [call EXCEPT !.threw = "Error"]
         ELSE IF AlreadyRegistered(getMeta(ns), generatorPath)
         THEN /\ storeMeta' = storeMeta
              /\ lastReg' = [call EXCEPT !.ns = ns, !.found = getMeta(ns),
                                          !.ret = "this"]
         ELSE /\ storeMeta' = storeAdd(ns, generatorPath, packagePath)
              /\ lastReg' = [call EXCEPT !.ns = ns, !.found = getMeta(ns),
                                          !.ret = "this", !.added = TRUE]

\* get(namespaceOrPath).  `discovers` is whether resolveModulePath finds a
\* module for a string that is no namespace.
Get(id, discovers) ==
  LET key == Join(id)
      consulted == Fallback(storeGet(key), key, aliasOf(id))
      found == storeGet(consulted[Len(consulted)])
      call == [NoLookup EXCEPT !.called = TRUE, !.op = "get", !.id = id, !.key = key]
  IN  /\ Op
      /\ NoPriorities /\ NoEmits /\ NoCustom
      /\ NoAliases /\ lastReg' = NoReg
      /\ NoEngine
      /\ IF EmptyGuard(key)
         THEN storeMeta' = storeMeta /\ lastLookup' = call
         ELSE IF Parses(id) \/ found # None \/ ~discovers
         THEN /\ storeMeta' = storeMeta
              /\ lastLookup' = [call EXCEPT !.lookups = consulted, !.result = found]
         ELSE /\ storeMeta' = storeAdd(namespace(key), key, None)
              /\ lastLookup' = [call EXCEPT
                                  !.lookups = Append(consulted, namespace(key)),
                                  !.result = key, !.discovered = TRUE]

\* getGeneratorMeta(namespace)
GetGeneratorMeta(id) ==
  LET key == Join(id)
      consulted == Fallback(getMeta(key).resolved, key, aliasOf(id))
  IN  /\ Op
      /\ NoPriorities /\ NoEmits /\ NoCustom
      /\ NoAliases /\ lastReg' = NoReg
      /\ NoEngine
      /\ storeMeta' = storeMeta
      /\ lastLookup' = [NoLookup EXCEPT
                          !.called = TRUE, !.op = "getGeneratorMeta", !.id = id,
                          !.key = key,
                          !.lookups = consulted,
                          !.result = getMeta(consulted[Len(consulted)]).resolved]

\* create(namespaceOrPath, args, options): the generator is looked up and
\* instantiated; g is the instance.
Create(id, g) ==
  LET found == Lookup(id)
      call == [NoLookup EXCEPT !.called = TRUE, !.op = "create", !.id = id,
                               !.key = Join(id), !.lookups = found.lookups,
                               !.result = found.result]
  IN  /\ Op
      /\ NoPriorities /\ NoEmits /\ NoCustom
      /\ NoRegistry
      /\ NoEngine
      /\ lastLookup' = IF NotFound(found.result)
                       THEN [call EXCEPT !.threw = "TypeError"]
                       ELSE [call EXCEPT !.gen = g]

\* run(args, options): create(name), then runGenerator(generator).
\* `experimental` is this.experimental, fixed when the environment is made.
Run(id, experimental, g) ==
  LET found == Lookup(id)
      call == [NoLookup EXCEPT !.called = TRUE, !.op = "run", !.id = id,
                               !.key = Join(id), !.experimental = experimental]
      looked == [call EXCEPT !.lookups = found.lookups, !.result = found.result,
                             !.installs = Installs(experimental, found.result)]
  IN  /\ StartOk
      /\ NoPriorities /\ NoEmits /\ NoTaskStart
      /\ IF Join(id) = ""
         THEN /\ Op /\ NoRegistry /\ NoEngine
              /\ installClosure' = installClosure
              /\ lastLookup' = [call EXCEPT !.threw = "Error"]
         ELSE IF NotFound(found.result)
         THEN /\ Op /\ NoRegistry /\ NoEngine
              /\ installClosure' = installClosure
              /\ lastLookup' = [looked EXCEPT !.threw = "TypeError"]
         ELSE /\ runGenerator(g)
              /\ lastLookup' = [looked EXCEPT !.gen = g]

\* composeWith(generator, args, options, composeOptions): create(generator),
\* then queueGenerator(instance, {schedule}).
ComposeWith(c, id, position, flag, g) ==
  LET found == Lookup(id)
      call == [NoLookup EXCEPT !.called = TRUE, !.op = "composeWith", !.id = id,
                               !.key = Join(id), !.lookups = found.lookups,
                               !.result = found.result, !.c = c,
                               !.args = <<position, flag>>]
  IN  /\ CallerOk(c)
      /\ NoPriorities /\ NoEmits /\ NoCustom
      /\ IF NotFound(found.result)
         THEN /\ Op /\ NoRegistry /\ NoEngine
              /\ lastLookup' = [call EXCEPT !.threw = "TypeError"]
         ELSE /\ queueGenerator(c, g, ComposeSchedule(position, flag))
              /\ lastLookup' = [call EXCEPT !.gen = g]

\* addPriority(priority, before).  `before`, when given, names a sub-queue
\* of the list.
AddPriority(priority, before) ==
  /\ Op
  /\ before # None => \E i \in 1..Len(queueNames) : queueNames[i] = before
  /\ lastPriority' = [called |-> TRUE, priority |-> priority, before |-> before]
  /\ IF Includes(queueNames, priority)
     THEN queueNames' = queueNames /\ queue' = queue
     ELSE /\ queueNames' = addSubQueue(queueNames, priority, before)
          /\ queue' = [n \in DOMAIN queue \cup {priority} |->
                         IF n = priority THEN <<>> ELSE queue[n]]
  /\ nextId' = nextId /\ lastCalls' = <<>> /\ lastQG' = NoQG
  /\ NoFs /\ NoRegistry /\ NoLookups /\ NoEmits /\ NoCustom
  /\ UNCHANGED <<running, awaitingDone, inflight, executed, promises, changeListeners>>
  /\ UNCHANGED <<composeVars, rootVars, errorVars, endVars>>

\* registerStub(Generator, namespace, resolved, packagePath).  Reading
\* Generator.createGenerator of undefined throws a TypeError as well.
RegisterStub(arg, nsArg, resolved, packagePath) ==
  LET call == [NoReg EXCEPT !.called = TRUE, !.op = "stub", !.arg = arg,
                            !.nsArg = nsArg, !.path = resolved]
  IN  /\ Op
      /\ aliases' = aliases /\ lastAlias' = NoAlias
      /\ NoEngine
      /\ NoLookups /\ NoPriorities /\ NoEmits /\ NoCustom
      /\ IF ~IsStub(arg) \/ nsArg = None
         THEN storeMeta' = storeMeta /\ lastReg' = [call EXCEPT !.threw = "TypeError"]
         ELSE /\ storeMeta' = storeAdd(nsArg, resolved, packagePath)
              /\ lastReg' = [call EXCEPT !.ns = nsArg, !.found = getMeta(nsArg),
                                          !.ret = "this", !.added = TRUE]

\* register(pathOrStub, meta): a string goes to _registerGeneratorPath,
\* another truthy value to registerStub, anything else throws.
Register(arg, location, nsArg, packagePath) ==
  IF arg = "string"
  THEN RegisterGeneratorPath(TRUE, location, nsArg, packagePath)
  ELSE IF Truthy(arg)
  THEN RegisterStub(arg, nsArg, location, packagePath)
  ELSE /\ Op
       /\ aliases' = aliases /\ lastAlias' = NoAlias
       /\ NoEngine
       /\ NoLookups /\ NoPriorities /\ NoEmits /\ NoCustom
       /\ storeMeta' = storeMeta
       /\ lastReg' = [NoReg EXCEPT !.called = TRUE, !.op = "register", !.arg = arg,
                                   !.threw = "TypeError"]

\* --------------------------------------------------------- specifications
\* The calls on the alias rules and on the registry.
NextResolve ==
  \/ \E rule \in AliasRules : AliasRegister(rule)
  \/ \E input \in AliasInputs : AliasGet("string", input)
  \/ \E typ \in InputTypes \ {"string"} : AliasGet(typ, <<>>)
  \/ \E p \in Paths, ns \in Namespaces \cup {None}, pkg \in PackagePaths :
       Register("string", p, ns, pkg)
  \/ \E arg \in ArgKinds \ {"string", "undefined"}, ns \in Namespaces \cup {None},
        r \in {UNKNOWN_RESOLVED, "/gen/a"} :
       Register(arg, r, ns, None)
  \/ Register("undefined", None, None, None)
  \/ RegisterGeneratorPath(FALSE, None, None, None)

\* addPriority, with tasks queued on the sub-queues and run.
NextPriority ==
  \/ \E p \in NewPriorities \cup {"writing"},
        b \in {None} \cup {queueNames[i] : i \in 1..Len(queueNames)} :
       AddPriority(p, b)
  \/ \E p \in NewPriorities : Includes(queueNames, p) /\ QueueTask(0, p, None, TRUE)
  \/ RunLoopExec
  \/ RunLoopEnd
  \/ \E t \in inflight : TaskDone(t)

\* create, run and composeWith, over the generators registered as stubs.
NextCreate ==
  \/ Register("function", UNKNOWN_RESOLVED, "foo:app", None)
  \/ \E id \in RunIds, g \in Generators : Create(id, g)
  \/ \E id \in RunIds, e \in BOOLEAN, g \in Generators : Run(id, e, g)
  \/ \E c \in Callers, id \in RunIds \ {<<"">>}, g \in Generators :
       \/ ComposeWith(c, id, "none", None, g)
       \/ \E position \in FlagPositions \ {"none"}, flag \in BOOLEAN :
            ComposeWith(c, id, position, flag, g)
  \/ RunLoopExec
  \/ RunLoopEnd
  \/ \E t \in inflight : TaskDone(t)

\* The lookups, over the generators registered as stubs and the alias rules.
NextLookup ==
  \/ \E rule \in AliasRules : AliasRegister(rule)
  \/ \E ns \in Namespaces : Register("function", UNKNOWN_RESOLVED, ns, None)
  \/ \E id \in LookupIds, discovers \in BOOLEAN : Get(id, discovers)
  \/ \E id \in LookupIds : GetGeneratorMeta(id)

\* The install and the commit task: options, custom tasks, runGenerator,
\* start() and the scheduler.
NextInstall ==
  \/ \E in \in OptionInputs : LoadEnvironmentOptions(in)
  \/ \E install \in CustomInstallTasks, commit \in CustomCommitTasks :
       ComposedStoreCustomTasks(install, commit)
  \/ Start
  \/ \E g \in {"g1", "g3"} : RunGenerator(g)
  \/ RunLoopExec
  \/ RunLoopEnd
  \/ \E t \in inflight : TaskDone(t)

Next ==
  \/ \E c \in Callers, pk \in CallerTasks, r \in BOOLEAN : QueueTask(c, pk[1], pk[2], r)
  \/ Start
  \/ \E c \in Callers, g \in Generators, s \in BOOLEAN : QueueGenerator(c, g, s)
  \/ \E g \in Generators : RunGenerator(g)
  \/ RunLoopExec
  \/ RunLoopEnd
  \/ \E t \in inflight : TaskDone(t)
  \/ \E t \in inflight : TaskFail(t)
  \/ \E c \in Callers : FsChange(c)
  \/ \E c \in Callers : EmitGeneratorResolve(c)
  \/ \E c \in Callers : EmitGeneratorReject(c)
  \/ \E g \in Generators : EmitGeneratorError(g)
  \/ \E f \in Files, seen \in BOOLEAN : StageWrite(f, seen)
  \/ NextResolve
  \/ NextLookup
  \/ NextCreate
  \/ NextPriority
  \/ NextInstall

Spec == Init /\ [][Next]_vars

\* The scheduler alone: queueTask, start and the run loop.
NextSched ==
  \/ \E c \in Callers, pk \in CallerTasks, r \in BOOLEAN : QueueTask(c, pk[1], pk[2], r)
  \/ Start
  \/ RunLoopExec
  \/ RunLoopEnd
  \/ \E t \in inflight : TaskDone(t)
  \/ \E t \in inflight : TaskFail(t)
  \/ \E c \in Callers : FsChange(c)

SpecSched == Init /\ [][NextSched]_vars

\* A run of the environment: the scheduler, runGenerator and the events
\* start() listens to.
NextRun ==
  \/ \E c \in Callers, r \in BOOLEAN : QueueTask(c, "writing", None, r)
  \/ Start
  \/ \E g \in Generators : RunGenerator(g)
  \/ RunLoopExec
  \/ RunLoopEnd
  \/ \E t \in inflight : TaskDone(t)
  \/ \E t \in inflight : TaskFail(t)
  \/ \E c \in Callers : EmitGeneratorResolve(c)
  \/ \E c \in Callers : EmitGeneratorReject(c)

SpecRun == Init /\ [][NextRun]_vars

\* The run loop takes its next step on a later turn of the event loop, and
\* a task's action settles.
Settle == \E t \in inflight : TaskDone(t) \/ TaskFail(t)
SpecRunFair ==
  SpecRun /\ WF_vars(RunLoopExec) /\ WF_vars(RunLoopEnd) /\ WF_vars(Settle)

\* Composition: queueGenerator, runGenerator and the scheduler.
NextCompose ==
  \/ \E c \in Callers, g \in Generators, s \in BOOLEAN : QueueGenerator(c, g, s)
  \/ \E g \in Generators : RunGenerator(g)
  \/ \E g \in Generators : EmitGeneratorError(g)
  \/ RunLoopExec
  \/ RunLoopEnd
  \/ \E t \in inflight : TaskDone(t)
  \/ \E t \in inflight : TaskFail(t)

SpecCompose == Init /\ [][NextCompose]_vars

\* The commit pipeline: staged writes, start() and the scheduler.
NextCommit ==
  \/ \E c \in Callers : QueueTask(c, "writing", None, FALSE)
  \/ Start
  \/ \E f \in Files, seen \in BOOLEAN : StageWrite(f, seen)
  \/ RunLoopExec
  \/ RunLoopEnd
  \/ \E t \in inflight : TaskDone(t)
  \/ \E t \in inflight : TaskFail(t)

SpecCommit == Init /\ [][NextCommit]_vars

\* The alias rules and the registry alone.
SpecResolve == Init /\ [][NextResolve]_vars

\* The lookups alone.
SpecLookup == Init /\ [][NextLookup]_vars

\* The list of sub-queues and the tasks queued on them.
SpecPriority == Init /\ [][NextPriority]_vars

\* Generators looked up, instantiated and run or composed.
SpecCreate == Init /\ [][NextCreate]_vars

\* The install and the commit task with their inputs.
SpecInstall == Init /\ [][NextInstall]_vars

\* ------------------------------------------------------------- properties
\* Position of a sub-queue in the run loop's order.
Rank(name) == IndexOf(queueNames, name)

\* Every task pending in some sub-queue.
PendingTasks == UNION {{queue[n][i] : i \in 1..Len(queue[n])} : n \in DOMAIN queue}

\* The task whose action starts in this step, when one does.
Begins == Len(executed') > Len(executed)
Begun == executed'[Len(executed')]

OnceKeys == {"k", CommitOnceKey, InstallOnceKey}

\* C1: whenever a task begins executing, no task is pending for a sub-queue
\* ordered before the one it was queued for, and it is the earliest-enqueued
\* pending task queued for its own sub-queue.
C1_Ordering ==
  [][Begins =>
       /\ Begun \in PendingTasks
       /\ \A u \in PendingTasks :
            /\ Rank(u.prio) >= Rank(Begun.prio)
            /\ (u.prio = Begun.prio => Begun.id <= u.id)]_vars

\* Tasks enqueued B1, A1, A2 (A before B) were executed A1, A2, B1.
C1_Witness ==
  /\ Len(executed) >= 3
  /\ executed[1].prio = "writing" /\ executed[2].prio = "writing"
  /\ executed[3].prio = "install"
  /\ executed[3].id < executed[1].id /\ executed[1].id < executed[2].id

\* C2: in every reachable state at most one task action is in flight, and
\* while one is the run loop is waiting for its done/stop.
C2_SingleInFlight ==
  /\ Cardinality(inflight) <= 1
  /\ (inflight # {} => awaitingDone)

\* One action is in flight while the scheduler runs and another task is
\* pending, after an earlier task completed.
C2_Witness ==
  /\ running /\ Cardinality(inflight) = 1
  /\ PendingTasks # {}
  /\ Len(executed) >= 2

\* C3: while no task has failed, the scheduler is never stopped (before
\* its start, or after 'end') with a task still pending that a running task
\* queued: such a task is executed before 'end'.
C3_ReentrantBeforeEnd ==
  (~running /\ failures = 0) => \A t \in PendingTasks : t.by = 0

\* The scheduler ended without failure after executing a task that a running
\* task queued into a sub-queue the scan had already passed, and one queued
\* into its own sub-queue.
C3_Witness ==
  /\ runLoopEnds > 0 /\ ~running /\ failures = 0
  /\ \E i, j \in 1..Len(executed) :
       /\ executed[j].by = executed[i].id
       /\ Rank(executed[j].prio) < Rank(executed[i].prio)
  /\ \E i, j \in 1..Len(executed) :
       /\ executed[j].by = executed[i].id
       /\ executed[j].prio = executed[i].prio

\* C4: before the scheduler starts, a queueTask call whose once key names a
\* task already pending in that sub-queue is dropped, and of the tasks queued
\* under one key before the start at most one is ever executed.
C4_OnceBeforeStart ==
  [][/\ \A i \in 1..Len(lastCalls') :
          (lastCalls'[i].once # None /\ lastCalls'[i].idle /\ lastCalls'[i].pendingSame)
            => lastCalls'[i].dropped
     /\ \A n \in DOMAIN queue, k \in OnceKeys :
          Cardinality({i \in 1..Len(executed') :
                         /\ executed'[i].idle
                         /\ executed'[i].once = k
                         /\ executed'[i].prio = n}) <= 1]_vars

\* Two queueTask calls with key "k" before start(): the run executed the
\* first, the commit and the install task, and nothing else, and ended.
C4_Witness ==
  /\ runLoopEnds = 1 /\ ops = 3 /\ nextId = 5
  /\ Len(executed) = 3
  /\ executed[1].once = "k" /\ executed[1].id = 1
  /\ PendingTasks = {}

C6_FailureStopsDraining ==
  [][/\ (failures' > failures => ~running')
     /\ ((~running /\ ops' = ops) =>
           /\ executed' = executed
           /\ runLoopEnds' = runLoopEnds
           /\ envEnds' = envEnds
           /\ ~running')]_vars

\* A task failed while tasks were pending in its own and in a later
\* sub-queue; they are still pending and no 'end' was emitted.
C6_Witness ==
  /\ failures = 1 /\ ~running /\ runLoopEnds = 0
  /\ \E i \in 1..Len(executed) :
       /\ executed[i].prio = "writing"
       /\ \E u \in PendingTasks : u.prio = "writing"
       /\ \E u \in PendingTasks : u.prio = "install"

\* The task whose action settles in this step.
Settled == CHOOSE t \in inflight : t \notin inflight'

\* C7: when a task's action fails after start() was called, the
\* environment emits 'error' with that task's error, the adapter is closed,
\* every promise of start() still pending is rejected with that error, and a
\* rejected promise never changes.
C7_FailureRejects ==
  [][/\ (failures' > failures /\ Len(promises) > 0) =>
          /\ envErrors' > envErrors
          /\ lastEnvError' = TaskError(Settled)
          /\ adapterClosed' > adapterClosed
          /\ \A i \in 1..Len(promises) :
               promises[i].state = "pending" =>
                 /\ promises'[i].state = "rejected"
                 /\ promises'[i].value = TaskError(Settled)
     /\ \A i \in 1..Len(promises) :
          promises[i].state = "rejected" =>
            /\ promises'[i].state = "rejected"
            /\ promises'[i].value = promises[i].value]_vars

\* A task failed after start(): the promise is rejected with its error, and
\* stays so after the scheduler was started again and ended.
C7_Witness ==
  /\ failures = 1 /\ envErrors >= 1 /\ adapterClosed >= 1
  /\ Len(promises) >= 1
  /\ promises[1].state = "rejected" /\ promises[1].value = lastEnvError
  /\ lastEnvError.kind = "error"
  /\ runLoopEnds > 0

AllQueuesEmpty == \A n \in DOMAIN queue : queue[n] = <<>>

Resolves(i) == promises[i].state = "pending" /\ promises'[i].state = "resolved"

\* Every promise of start() that is pending settles, unless a task fails.
EventuallySettles ==
  \A i \in 1..MaxOps :
    (Len(promises) >= i /\ promises[i].state = "pending")
      ~> (failures > 0 \/ (Len(promises) >= i /\ promises[i].state # "pending"))

C9_ResolvesWithRootResult ==
  \A i \in 1..Len(promises) :
    (promises[i].state = "resolved" /\ promises[i].by = "end" /\ rootGenerator # None)
      => promises[i].value = Result(rootGenerator)

\* C9: a promise of start() resolved by the scheduler's 'end' carries no
\* value (undefined), one resolved by a 'generator:resolve' event carries the
\* event's payload, and a rejected one carries the first error surfaced to
\* the environment since that start() call.
C9_ResolvesUndefined ==
  \A i \in 1..Len(promises) :
    /\ promises[i].state = "resolved" =>
         \/ promises[i].by = "end" /\ promises[i].value = Undefined
         \/ promises[i].by = "generator:resolve" /\ promises[i].value = CompatPayload
    /\ promises[i].state = "rejected" =>
         /\ promises[i].firstErr # NoVal
         /\ promises[i].value = promises[i].firstErr

\* runGenerator ran the root generator's tasks and resolved on 'end'; a
\* later start() was rejected by a failing task.
C9_Witness ==
  /\ rootGenerator # None /\ queueTasksCalls[rootGenerator] = 1
  /\ Len(promises) = 2
  /\ promises[1].state = "resolved" /\ promises[1].by = "end"
  /\ promises[2].state = "rejected" /\ promises[2].value.kind = "error"

\* Number of times the generators of one identity were orchestrated.
RECURSIVE Sum(_, _)
Sum(f, S) == IF S = {} THEN 0 ELSE LET x == CHOOSE y \in S : TRUE IN f[x] + Sum(f, S \ {x})
Orchestrations(id) ==
  LET S == {g \in Generators : Identifier(g) = id}
  IN Sum(queueTasksCalls, S) + Sum(runCalls, S)

\* C10: a queueGenerator call for a generator whose identity is already in
\* the composed store returns the stored instance, emits no compose event,
\* queues no task, invokes no queueTasks() or run() and leaves the store
\* alone; and the generators of one identity are orchestrated at most once
\* and announced by at most one 'compose' event.
C10_ComposeTwiceNoEffect ==
  [][/\ (lastQG'.gen # None /\ ~lastQG'.added) =>
          /\ lastQG'.ret = composed[Identifier(lastQG'.gen)]
          /\ lastQG'.queued = 0
          /\ composed' = composed
          /\ composeEvents' = composeEvents
          /\ queueTasksCalls' = queueTasksCalls
          /\ runCalls' = runCalls
     /\ \A id \in Identifiers :
          /\ Orchestrations(id)' <= 1
          /\ Cardinality({i \in 1..Len(composeEvents') :
                            composeEvents'[i].ev = "compose" /\ composeEvents'[i].id = id}) <= 1]_vars

\* A second instance of an identity already orchestrated is composed: the
\* first instance is returned.
C10_Witness ==
  /\ lastQG.gen = "g2" /\ ~lastQG.added /\ lastQG.ret = "g1"
  /\ queueTasksCalls["g1"] = 1 /\ queueTasksCalls["g2"] = 0

\* The events of one kind emitted for an identifier.
EventsOf(evs, kind, id) == {i \in 1..Len(evs) : evs[i].ev = kind /\ evs[i].id = id}

\* C11: a queueGenerator call that adds the generator emits 'compose' and
\* then 'compose:<identifier>' for it, before the generator is run or
\* scheduled; no other step emits either; so each composed identifier has
\* exactly one event of each kind and an identifier not composed has none.
C11_ComposeEventsOnce ==
  [][/\ IF lastQG'.gen # None /\ lastQG'.added
        THEN /\ Len(composeEvents') = Len(composeEvents) + 2
             /\ SubSeq(composeEvents', 1, Len(composeEvents)) = composeEvents
             /\ LET e1 == composeEvents'[Len(composeEvents) + 1]
                    e2 == composeEvents'[Len(composeEvents) + 2]
                IN /\ e1.ev = "compose" /\ e2.ev = "compose:id"
                   /\ e1.id = Identifier(lastQG'.gen) /\ e2.id = e1.id
                   /\ e1.gen = lastQG'.gen /\ e2.gen = lastQG'.gen
                   /\ e1.orch = 0 /\ e2.orch = 0
        ELSE composeEvents' = composeEvents
     /\ \A id \in Identifiers :
          LET n == IF composed'[id] = None THEN 0 ELSE 1
          IN /\ Cardinality(EventsOf(composeEvents', "compose", id)) = n
             /\ Cardinality(EventsOf(composeEvents', "compose:id", id)) = n]_vars

\* Both identities were composed and one of them is composed a second time:
\* four events in all.
C11_Witness ==
  /\ Len(composeEvents) = 4
  /\ composeEvents[1].ev = "compose" /\ composeEvents[2].ev = "compose:id"
  /\ lastQG.gen # None /\ ~lastQG.added
  /\ \E g \in Generators : queueTasksCalls[g] > 0

\* C12: a start() call that is not the first one of the scheduler's
\* lifetime arms neither the commit task nor the install task again: its
\* queueCommit and queuePackageManagerInstall calls, if made at all, queue
\* nothing.
C12_ArmedOnce ==
  [][(Len(promises') > Len(promises) /\ Len(promises) > 0) =>
       \A i \in 1..Len(lastCalls') :
         lastCalls'[i].kind \in {"commit", "install"} => lastCalls'[i].dropped]_vars

\* C13: when the scheduler ends without a failure and resolves the promise
\* of start(), no staged file is pending: every write staged before or
\* during the run, also one staged during a commit pass or after one, has
\* been committed by some pass.
C13_NoPendingAtResolve ==
  [][((\E i \in 1..Len(promises) : Resolves(i) /\ promises'[i].by = "end") /\ failures = 0)
       => \A f \in Files : files'[f] # "pending"]_vars

\* The files a settled pass wrote to disk.
Written(pass) == {f \in pass.streamed : pass.results[f].written}
Prompted(pass) == {f \in pass.streamed : pass.results[f].prompted}

\* C14: the stream of a commit pass holds exactly the files pending when the
\* pass starts, and a pass writes no file that is not pending: a file that
\* an earlier pass committed and that was not staged again is not written
\* a second time.
C14_CommitIdempotent ==
  [][/\ (Begins /\ Begun.kind = "commit") => streamed' = {f \in Files : files[f] = "pending"}
     /\ lastPass'.ran => \A f \in Written(lastPass') : files[f] = "pending"]_vars

\* A pass settled that wrote nothing, while a file committed by an earlier
\* pass and not staged since was left alone.
C14_Witness ==
  /\ lastPass.ran /\ ~lastPass.aborted
  /\ Written(lastPass) = {}
  /\ \E f \in Files : files[f] = "committed" /\ f \notin lastPass.streamed

\* C15: in every commit pass a control file carries the force marker when
\* the persisted-resolution stage and the conflict-resolution stage see it,
\* is never asked about and is written, whatever the policy, the persisted
\* resolution and the state on disk; every other file passes the
\* conflict-resolution stage, and is written only if that stage resolved it
\* to be written.
C15_ControlFilesForced ==
  [][lastPass'.ran =>
       \A f \in lastPass'.streamed :
         LET r == lastPass'.results[f]
         IN IF IsControlFile(f)
            THEN /\ Len(r.seen) = 2
                 /\ \A i \in 1..2 : r.seen[i].marker = "force"
                 /\ ~r.prompted
                 /\ r.action = "write" /\ r.written
            ELSE /\ Len(r.seen) = 2
                 /\ r.seen[2].stage = "conflicter"
                 /\ r.action # None
                 /\ (r.written => r.action = "write")]_vars

\* A pass under the ask policy over a control file and an ordinary file,
\* both differing on disk: the control file was written unasked, the other
\* file was asked about and skipped.
C15_Witness ==
  /\ lastPass.ran /\ ~lastPass.aborted
  /\ lastPass.streamed = Files
  /\ lastPass.in.policy = "ask" /\ lastPass.in.conflict /\ lastPass.in.answer = "skip"
  /\ lastPass.in.resolve = None
  /\ Written(lastPass) = {".yo-rc.json"}
  /\ Prompted(lastPass) = {"file.txt"}

\* C16: the step in which conflict resolution aborts the commit pass is a
\* task failure: the scheduler stops, the environment emits 'error', every
\* pending promise of start() is rejected with the commit task's error, and
\* no 'change' listener is added; and while the scheduler is stopped no
\* task, in particular not the install task, starts until a call from
\* outside.
C16_AbortFailsCommit ==
  [][/\ (lastPass'.ran /\ lastPass'.aborted) =>
          /\ Settled.kind = "commit"
          /\ failures' = failures + 1
          /\ ~running'
          /\ changeListeners' = changeListeners
          /\ Len(promises) > 0 => envErrors' > envErrors
          /\ \A i \in 1..Len(promises) :
               promises[i].state = "pending" =>
                 /\ promises'[i].state = "rejected"
                 /\ promises'[i].value = TaskError(Settled)
     /\ (~running /\ ops' = ops) => (executed' = executed /\ ~running')]_vars

\* The bail policy aborted a commit pass over a file differing on disk:
\* start() is rejected, the install task is still pending, nothing listens
\* to 'change'.
C16_Witness ==
  /\ lastPass.ran /\ lastPass.aborted /\ lastPass.in.policy = "bail"
  /\ Len(promises) = 1 /\ promises[1].state = "rejected"
  /\ \E u \in PendingTasks : u.kind = "install"
  /\ \A i \in 1..Len(executed) : executed[i].kind # "install"
  /\ changeListeners = 0 /\ ~running

\* C17: the alias getter applies every registered rule, the most recently
\* registered first: the k-th rule applied is the k-th from the end of the
\* list, the first is given the input and each next one the output of the
\* one before, a rule whose pattern does not match returns what it was given,
\* and the getter returns the output of the last rule applied.
C17_ReverseInsertionOrder ==
  [][(lastAlias'.called /\ lastAlias'.threw = None) =>
       LET st == lastAlias'.steps
           n == Len(aliases)
       IN  /\ Len(st) = n
           /\ \A k \in 1..n :
                /\ st[k].rule = aliases[n + 1 - k]
                /\ st[k].given = IF k = 1 THEN lastAlias'.input ELSE st[k - 1].out
                /\ st[k].out = IF AliasTest(st[k].rule, st[k].given)
                               THEN AliasReplace(st[k].rule, st[k].given)
                               ELSE st[k].given
           /\ lastAlias'.output = st[n].out]_vars

\* "foo" resolved with the default rule R1 and a later rule R2 that appends
\* ':all' to a bare identifier: R2 is applied first, R1 no longer matches.
C17_Witness ==
  /\ lastAlias.called
  /\ lastAlias.input = <<"foo">>
  /\ Len(aliases) = 2
  /\ aliases[2] = [pat |-> "bare", lit |-> <<>>, value |-> <<"all">>]
  /\ lastAlias.output = <<"foo", "all">>
  /\ lastAlias.steps[2].out = lastAlias.steps[2].given

\* C18: with the constructor's rule alone, a non-empty identifier with no
\* ':' resolves to itself followed by the segment 'app', an identifier with
\* a ':' resolves to itself, and resolving the result again returns it.
C18_DefaultRuleIdempotent ==
  [][(lastAlias'.called /\ lastAlias'.threw = None /\ Len(aliases) = 1) =>
       LET x == lastAlias'.input
       IN  /\ (Len(x) = 1 /\ x[1] # "") => lastAlias'.output = x \o <<"app">>
           /\ Len(x) > 1 => lastAlias'.output = x
           /\ lastAlias'.again = lastAlias'.output]_vars

C18_Witness ==
  /\ lastAlias.called
  /\ Len(aliases) = 1
  /\ lastAlias.input = <<"foo">>
  /\ lastAlias.output = <<"foo", "app">>
  /\ lastAlias.again = <<"foo", "app">>

\* C19, as claimed: the getter called with a match that is no string returns
\* the match unresolved, does not fail and registers no rule.
C19_NonStringPassesThrough ==
  [][(lastAlias'.called /\ lastAlias'.typ # "string") =>
       /\ lastAlias'.threw = None
       /\ lastAlias'.output = lastAlias'.input
       /\ aliases' = aliases]_vars

\* C19, amended: the getter called with a match that is no string throws a
\* TypeError and registers no rule.
C19_NonStringThrows ==
  [][(lastAlias'.called /\ lastAlias'.typ # "string") =>
       /\ lastAlias'.threw = "TypeError"
       /\ aliases' = aliases]_vars

C19_Witness ==
  /\ lastAlias.called
  /\ lastAlias.typ = "namespace"
  /\ lastAlias.threw = "TypeError"
  /\ Len(aliases) > 1

\* C20: a path registered under a namespace whose metadata already has that
\* resolved location leaves the registry as it was, adds nothing and returns
\* the environment; a path registered under a namespace with another
\* location, or with none, is added, and the metadata of the namespace then
\* has the new resolved location.
C20_RegisterPathTwice ==
  [][(lastReg'.called /\ lastReg'.op = "path" /\ lastReg'.threw = None) =>
       LET ns == lastReg'.ns
           generatorPath == lastReg'.path
       IN  /\ lastReg'.ret = "this"
           /\ IF storeMeta[ns].resolved = generatorPath
              THEN storeMeta' = storeMeta /\ ~lastReg'.added
              ELSE /\ lastReg'.added
                   /\ storeMeta'[ns].resolved = generatorPath
                   /\ \A other \in Namespaces \ {ns} :
                        storeMeta'[other] = storeMeta[other]]_vars

\* A namespace registered with one location is registered with another.
C20_Witness ==
  /\ lastReg.called
  /\ lastReg.op = "path"
  /\ lastReg.found # NoMeta
  /\ lastReg.found.resolved # lastReg.path
  /\ lastReg.added
  /\ storeMeta[lastReg.ns].resolved = lastReg.path

\* The calls C21 is about: register() with nothing, a path that is not
\* absolute, a path no namespace is derived from and none is given for, a
\* stub that is neither a function nor has createGenerator, a stub with no
\* namespace string.
InvalidRegistration(call) ==
  \/ call.arg = "undefined"
  \/ call.op = "path" /\ call.path \notin AbsolutePaths
  \/ call.op = "path" /\ call.nsArg = None /\ namespace(call.path) = ""
  \/ call.op = "stub" /\ call.arg \notin {"function", "factory"}
  \/ call.op = "stub" /\ call.nsArg = None

\* C21: a registration with invalid arguments throws in the call itself, adds
\* nothing to the store and leaves the registry as it was.
C21_InvalidRegistrationThrows ==
  [][(lastReg'.called /\ InvalidRegistration(lastReg')) =>
       /\ lastReg'.threw # None
       /\ ~lastReg'.added
       /\ lastReg'.ret = None
       /\ storeMeta' = storeMeta]_vars

\* A plain object is registered as a stub under a namespace that already has
\* metadata: the call throws and the metadata is still there.
C21_Witness ==
  /\ lastReg.called
  /\ lastReg.op = "stub"
  /\ lastReg.arg = "object"
  /\ lastReg.nsArg = "foo:app"
  /\ lastReg.threw = "TypeError"
  /\ storeMeta["foo:app"] # NoMeta

\* What C22 says of a lookup of a non-empty identifier: an entry under the
\* identifier as given is the result and nothing else is consulted; without
\* one the alias-resolved identifier is consulted next, once, and its entry
\* is the result unless the identifier is a path that is then discovered.
FallsBackOnce(call) ==
  LET exact == getMeta(call.key).resolved
      aliased == aliasOf(call.id)
  IN  IF exact # None
      THEN call.lookups = <<call.key>> /\ call.result = exact
      ELSE /\ Len(call.lookups) >= 2
           /\ call.lookups[1] = call.key
           /\ call.lookups[2] = aliased
           /\ ~call.discovered =>
                /\ Len(call.lookups) = 2
                /\ call.result = getMeta(aliased).resolved

Missing(call) ==
  /\ getMeta(call.key).resolved = None
  /\ getMeta(aliasOf(call.id)).resolved = None

\* C23: run() of a generator that is not registered attempts the install
\* step once when the environment is experimental, never when it is not,
\* and then fails with generator-not-found.
C23_InstallAttemptedOnce ==
  [][(lastLookup'.op = "run" /\ lastLookup'.key # "" /\ Missing(lastLookup')) =>
       /\ lastLookup'.installs = IF lastLookup'.experimental THEN 1 ELSE 0
       /\ lastLookup'.threw = "TypeError"]_vars

\* The orchestration state: the composed store, its events, the generators'
\* calls, the queues and the scheduler.
orchestration ==
  <<composed, composeEvents, queueTasksCalls, runCalls, rootGenerator,
    compatibilityMode, queue, nextId, running, inflight, executed, promises,
    runLoopEndOnce>>

\* C24: create(), run() and composeWith() of a generator that is not
\* registered fail with the generator-not-found error; nothing is
\* instantiated or composed, no event is emitted, no task is queued and the
\* scheduler is not started.
C24_NotFoundChangesNothing ==
  [][(lastLookup'.op \in {"create", "run", "composeWith"}
        /\ lastLookup'.key # "" /\ Missing(lastLookup')) =>
       /\ lastLookup'.threw = "TypeError"
       /\ lastLookup'.gen = None
       /\ lastCalls' = <<>>
       /\ lastQG' = NoQG
       /\ orchestration' = orchestration]_vars

\* run("bar") fails while a generator composed earlier has a task pending.
C24_Witness ==
  /\ lastLookup.op = "run"
  /\ lastLookup.key = "bar"
  /\ lastLookup.threw = "TypeError"
  /\ \E i \in Identifiers : composed[i] # None
  /\ PendingTasks # {}

\* The names of a list, and the list without one name.
NamesOf(names) == {names[i] : i \in 1..Len(names)}
Without(names, name) == SelectSeq(names, LAMBDA n : n # name)

\* C25: an addPriority call with a name of the list leaves the list as it
\* is, whatever `before` is; a call with a new name puts it right in front
\* of `before`, or at the end when `before` is omitted; the other names
\* stay, in their order, and no name is in the list twice.
C25_AddPriorityKeepsOrder ==
  [][lastPriority'.called =>
       LET priority == lastPriority'.priority
           before == lastPriority'.before
           n == Len(queueNames')
       IN  IF priority \in NamesOf(queueNames)
           THEN queueNames' = queueNames
           ELSE /\ Without(queueNames', priority) = queueNames
                /\ \A i, j \in 1..n : queueNames'[i] = queueNames'[j] => i = j
                /\ IF before = None
                   THEN queueNames'[n] = priority
                   ELSE \E i \in 1..(n - 1) :
                          queueNames'[i] = priority /\ queueNames'[i + 1] = before]_vars

\* 'custom' has been put in front of 'writing', and a later call names
\* 'custom' again with another `before`.
C25_Witness ==
  /\ lastPriority.called
  /\ lastPriority.priority = "custom"
  /\ lastPriority.before = "install"
  /\ \E i \in 1..(Len(queueNames) - 1) :
       queueNames[i] = "custom" /\ queueNames[i + 1] = "writing"

\* The queueTask call of the step, when the step is one.
QueueTaskCalled == Len(lastCalls') = 1 /\ lastCalls'[1].kind = "user"

\* C26: a queueTask call starts no task itself; made while the scheduler is
\* stopped it leaves it stopped without startQueue and makes it run with
\* startQueue; made while the scheduler runs it leaves the drain as it is.
\* A task starts only while the scheduler runs and no task is in flight, and
\* the scheduler begins to run only in a start() call or in a queueTask call
\* with startQueue.
C26_QueueTaskOnlyAppends ==
  [][/\ QueueTaskCalled =>
          /\ ~Begins
          /\ inflight' = inflight /\ awaitingDone' = awaitingDone
          /\ running' = (running \/ lastCalls'[1].startQueue)
     /\ Begins => (running /\ inflight = {})
     /\ (running' /\ ~running) =>
          \/ Len(promises') > Len(promises)
          \/ QueueTaskCalled /\ lastCalls'[1].startQueue]_vars

\* A task queued without startQueue is pending, the scheduler is stopped and
\* nothing has been executed.
C26_Witness ==
  /\ Len(lastCalls) = 1
  /\ lastCalls[1].kind = "user"
  /\ ~lastCalls[1].startQueue
  /\ ~lastCalls[1].dropped
  /\ ~running
  /\ executed = <<>>
  /\ Cardinality(PendingTasks) >= 2

\* The runGenerator closure of queueGenerator is run for g in this step: by
\* the queueGenerator call that added g without scheduling it, or by the
\* 'environment:run' task queued for g.
ClosureRuns(g) ==
  \/ /\ lastQG'.gen = g /\ lastQG'.added
     /\ \A i \in 1..Len(lastCalls') : lastCalls'[i].kind # "run"
  \/ Begins /\ Begun.kind = "run" /\ Begun.gen = g

\* C27: the closure calls queueTasks() of a generator that has it and not
\* its run(); it calls run() of a generator without queueTasks, whose run()
\* is thus called at most once; an 'error' event of such a generator is
\* emitted on the environment and rejects the pending runs, unless the
\* generator's forwardErrorToEnvironment option is set.
C27_LegacyRunAndErrors ==
  [][/\ \A g \in Generators :
          /\ ClosureRuns(g) =>
               IF HasQueueTasks(g)
               THEN queueTasksCalls' = Bump(queueTasksCalls, g) /\ runCalls' = runCalls
               ELSE runCalls' = Bump(runCalls, g) /\ queueTasksCalls' = queueTasksCalls
          /\ HasQueueTasks(g) => runCalls'[g] = 0
          /\ ~HasQueueTasks(g) => runCalls'[g] <= 1 /\ queueTasksCalls'[g] = 0
     /\ lastEmit'.called =>
          LET g == lastEmit'.gen
          IN  IF ForwardErrorToEnvironment(g)
              THEN envErrors' = envErrors /\ promises' = promises
              ELSE /\ envErrors' = envErrors + 1
                   /\ lastEnvError' = GeneratorError(g)
                   /\ \A i \in 1..Len(promises) :
                        promises[i].state = "pending" =>
                          /\ promises'[i].state = "rejected"
                          /\ promises'[i].value = GeneratorError(g)]_vars

\* The run of a legacy generator was rejected with the error the generator
\* emitted.
C27_Witness ==
  /\ lastEmit.called
  /\ lastEmit.gen = "g3"
  /\ runCalls["g3"] = 1
  /\ Len(promises) > 0
  /\ promises[1].state = "rejected"
  /\ promises[1].value = GeneratorError("g3")

\* The step is a runGenerator call: a queueGenerator call and a start() call
\* in one.
RunGeneratorCalled == lastQG'.gen # None /\ Len(promises') = Len(promises) + 1

C29_OneShotRearm ==
  /\ changeListeners <= 1
  /\ Cardinality({t \in PendingTasks : t.kind = "commit"}) <= 1

\* C30: a composeWith call that composes a new generator schedules it (queues
\* an 'environment:run' task for it) when it is given no schedule flag or
\* the flag true, and runs it at once, queueing no such task, when it is
\* given the flag false, in whichever position the flag is given.
C30_ScheduleFlagHonoured ==
  [][(lastLookup'.op = "composeWith" /\ lastLookup'.gen # None /\ lastQG'.added) =>
       LET position == lastLookup'.args[1]
           wanted == IF position = "none" THEN TRUE ELSE lastLookup'.args[2]
           scheduled == \E i \in 1..Len(lastCalls') : lastCalls'[i].kind = "run"
       IN  /\ scheduled = wanted
           /\ ~wanted => \E g \in Generators :
                          g = lastLookup'.gen /\ Orchestrated(g)' = 1]_vars

\* C31: once start() has been called, however many times, the step in
\* which a task's action fails emits the environment's 'error' exactly once
\* and closes the adapter exactly once, and the step in which the run loop
\* emits 'end' with a start() call waiting for it emits the environment's
\* 'end' exactly once.
C31_OneErrorOneCloseOneEnd ==
  [][/\ (failures' > failures /\ Len(promises) > 0) =>
          /\ envErrors' = envErrors + 1
          /\ adapterClosed' = adapterClosed + 1
     /\ (runLoopEnds' > runLoopEnds /\ runLoopEndOnce > 0) =>
          envEnds' = envEnds + 1]_vars

\* The task whose action starts in this step.
Started == executed'[Len(executed')]

\* C32: compatibility mode is that of the last generator passed to
\* runGenerator; an install task invokes the package manager unless the mode
\* is 'v4' when the task starts, and passes it the skipInstall,
\* nodePackageManager and customInstallTask values of the moment start()
\* queued the task, whatever they are when the task starts; the commit task
\* uses the customCommitTask of the moment it starts.
C32_InstallCapturesCommitReads ==
  [][/\ IF RunGeneratorCalled
        THEN compatibilityMode' = IF HasQueueTasks(lastQG'.gen) THEN "false" ELSE "v4"
        ELSE compatibilityMode' = compatibilityMode
     /\ \A i \in DOMAIN installClosure' :
          installClosure'[i] = IF i \in DOMAIN installClosure THEN installClosure[i]
                               ELSE InstallValues
     /\ Armed(lastCalls') \subseteq DOMAIN installClosure'
     /\ (Len(executed') > Len(executed) /\ Started.kind = "install") =>
          /\ lastInstall'.called
          /\ lastInstall'.invoked = (compatibilityMode # "v4")
          /\ lastInstall'.invoked => lastInstall'.args = installClosure[Started.id]
     /\ (Len(executed') > Len(executed) /\ Started.kind = "commit") =>
          commitWith' = customCommitTask]_vars

\* An install task invoked the package manager with values that were
\* changed after start() queued it, and a commit task used a custom commit
\* task set after start() queued it.
C32_Witness ==
  /\ lastInstall.called /\ lastInstall.invoked
  /\ lastInstall.args.skipInstall # options.skipInstall
  /\ lastInstall.args.customInstallTask # customInstallTask
  /\ commitWith = "custom"
  /\ \E i \in 1..Len(executed) : executed[i].kind = "commit"

====
